---- MODULE Spec2Model ----
(***************************************************************************)
(* Model of mybuddy280_driver/mybuddy280_ros2_wrapper.py: the ROS 2 node   *)
(* MyBuddy280ROSWrapper (construction, the telemetry timer callback, the   *)
(* send_joint_angles service callback, the context manager) and main().    *)
(*                                                                         *)
(* The Device Link is the pymycobot MyBuddy object held in self.mc.  Each  *)
(* blocking call on it (get_angles, get_angle, send_angle) is modelled as  *)
(* two steps: the step that issues the call and the step in which the      *)
(* call returns, so that "a call is in progress" is a state.  The code     *)
(* that runs between two Device Link calls is one atomic step.             *)
(*                                                                         *)
(* Angles are floats in the program; the model uses the integers that the  *)
(* range checks compare them with.                                         *)
(***************************************************************************)
EXTENDS Integers, Sequences, FiniteSets, TLC

\* ------------------------------------------------------------------------
\* Bounds of the model
\* ------------------------------------------------------------------------

\* longest request.joint_number array a client sends
MaxLen == 3

\* ------------------------------------------------------------------------
\* Inputs
\* ------------------------------------------------------------------------

\* request.part_id values a client sends ("X" stands for any other code)
PartCodes == {"L", "R", "W", "X"}

\* request.joint_number[] values: two legal joints and an illegal one
JointVals == {1, 6, 7}

\* request.angle[] values: the inclusive lower bound and just past the upper
AngleVals == {-175, 176}

\* request.speed[] values: the inclusive lower bound and just past the upper
SpeedVals == {1, 101}

\* the lengths (angle, speed) of the arrays that go with n joint numbers:
\* parallel, or one of them one element short
Shapes(n) ==
    {<<n, n>>} \cup (IF n > 0 THEN {<<n - 1, n>>, <<n, n - 1>>} ELSE {})

\* a MyBuddy280SendAngles request
Request(p, js, an, sp) ==
    [part_id |-> p, joint_number |-> js, angle |-> an, speed |-> sp]

\* the request slot when no service call is being handled
NoRequest == [part_id |-> "", joint_number |-> <<>>, angle |-> <<>>, speed |-> <<>>]

\* what self.mc.get_angles(id) may give back: a list of six angles, a list of
\* the wrong length, or a failure (the call raises, or returns a value that
\* is not a list and the list comprehension over it raises TypeError)
ArmReplies ==
    { [ok |-> TRUE,  val |-> <<0, 0, 0, 0, 0, 0>>],
      [ok |-> TRUE,  val |-> <<10, 20, 30, 40, 50, 60>>],
      [ok |-> TRUE,  val |-> <<10, 20, 30, 40, 50>>],
      [ok |-> FALSE, val |-> <<>>] }

\* what self.mc.get_angle(3, 1) may give back: an angle, or a failure (the
\* call raises, or returns a value float() rejects)
WaistReplies ==
    { [ok |-> TRUE,  val |-> 0],
      [ok |-> TRUE,  val |-> 90],
      [ok |-> FALSE, val |-> 0] }

\* ------------------------------------------------------------------------
\* State
\* ------------------------------------------------------------------------

VARIABLES
    main_pc,            \* position of main(): "construct", "enter", "add_node",
                        \*   "spin", "exit" (leaving the with block), "done"
    exc,                \* the exception main() is propagating, or "none"
    mc,                 \* self.mc: "unset" or "open" (the MyBuddy serial link)
    entities,           \* publisher / timer / service created on the node
    node_in_executor,   \* the node has been added to the executor
    context_ok,         \* rclpy context is initialised and not shut down
    tick_pc,            \* position of joint_state_callback
    state_msg,          \* the MyBuddy280Angles message being filled
    reads,              \* Device Link reads issued by the running tick
    replies,            \* what those reads returned
    pubs,               \* messages published by the running tick
    disp_pc,            \* position of send_joint_angles_callback
    request,            \* the request being handled
    part_id,            \* local part_id (0 while unresolved)
    i,                  \* local i
    response,           \* response.result
    sent,               \* send_angle calls issued by the running callback
    earlier             \* how the last callback that returned ended: "none",
                        \*   "tick", "success" or "failure" (a failure message)

vars == <<main_pc, exc, mc, entities, node_in_executor, context_ok,
          tick_pc, state_msg, reads, replies, pubs,
          disp_pc, request, part_id, i, response, sent, earlier>>

main_vars == <<main_pc, exc, mc, entities, node_in_executor, context_ok>>
tick_vars == <<tick_pc, state_msg, reads, replies, pubs>>
disp_vars == <<disp_pc, request, part_id, i, response, sent>>

\* ------------------------------------------------------------------------
\* Messages
\* ------------------------------------------------------------------------

MsgWrongId    == "Error: Wrong ID of robot part, use only L, R or W"
MsgWrongJoint == "Error: Wrong joint number (only 1 .. 6)"
MsgAngleRange == "Error: Angle is out of range (-175 .. 175)"
MsgSpeedRange == "Error: Speed is out of range (1 .. 100)"
MsgSuccess    == "Success: Angles sent"

\* a freshly constructed sensor_msgs/JointState: every array empty
EmptyJointState == [name |-> <<>>, position |-> <<>>, velocity |-> <<>>, effort |-> <<>>]

\* MyBuddy280Angles()
EmptyAngles ==
    [left_arm |-> EmptyJointState, right_arm |-> EmptyJointState, waist |-> EmptyJointState]

AllEntities == {"publisher_joint_state", "timer_state", "srv_send_joint_angle"}

\* ------------------------------------------------------------------------
\* Initial state: main() has run rclpy.init() and created the executor
\* ------------------------------------------------------------------------

Init ==
    /\ main_pc = "construct"
    /\ exc = "none"
    /\ mc = "unset"
    /\ entities = {}
    /\ node_in_executor = FALSE
    /\ context_ok = TRUE
    /\ tick_pc = "idle"
    /\ state_msg = EmptyAngles
    /\ reads = <<>>
    /\ replies = <<>>
    /\ pubs = <<>>
    /\ disp_pc = "idle"
    /\ request = NoRequest
    /\ part_id = 0
    /\ i = 0
    /\ response = ""
    /\ sent = <<>>
    /\ earlier = "none"

\* ------------------------------------------------------------------------
\* main() and the life cycle of the node
\* ------------------------------------------------------------------------

\* HandlerRaises for a handler whose statements all complete
HandlerRaises_Never == FALSE

\* self.executor.remove_node(self) in the except block of __init__:
\* Node.executor is None for a node that no executor holds, and calling
\* remove_node on None raises AttributeError out of the handler
HandlerRaises == ~node_in_executor

\* MyBuddy280ROSWrapper(): the whole constructor.  Opening the serial port
\* either succeeds or raises SerialException.  The statements that create
\* the publisher, the timer and the service follow the try statement, so
\* they run whenever the try statement completes, handler included.
Construct ==
    /\ main_pc = "construct"
    /\ \E port_ok \in BOOLEAN :
         IF port_ok
         THEN /\ mc' = "open"
              /\ entities' = AllEntities
              /\ main_pc' = "enter"
              /\ UNCHANGED <<exc, node_in_executor, context_ok>>
         ELSE IF HandlerRaises
              THEN /\ exc' = "AttributeError"
                   /\ main_pc' = "done"
                   /\ UNCHANGED <<mc, entities, node_in_executor, context_ok>>
              ELSE /\ node_in_executor' = FALSE
                   /\ context_ok' = FALSE
                   /\ entities' = AllEntities
                   /\ main_pc' = "enter"
                   /\ UNCHANGED <<mc, exc>>
    /\ UNCHANGED <<tick_vars, disp_vars>>
    /\ UNCHANGED earlier

\* __enter__: returns self
Enter ==
    /\ main_pc = "enter"
    /\ main_pc' = "add_node"
    /\ UNCHANGED <<exc, mc, entities, node_in_executor, context_ok>>
    /\ UNCHANGED <<tick_vars, disp_vars>>
    /\ UNCHANGED earlier

\* executor.add_node(mybuddy280_ros_wrapper), then executor.spin() starts
AddNode ==
    /\ main_pc = "add_node"
    /\ node_in_executor' = TRUE
    /\ main_pc' = "spin"
    /\ UNCHANGED <<exc, mc, entities, context_ok>>
    /\ UNCHANGED <<tick_vars, disp_vars>>
    /\ UNCHANGED earlier

\* KeyboardInterrupt inside the try statement of main(): the handler warns
\* and removes the node from the executor; callbacks already running on a
\* worker thread are not stopped
KeyboardInterrupt ==
    /\ main_pc \in {"add_node", "spin"}
    /\ node_in_executor' = FALSE
    /\ main_pc' = "exit"
    /\ UNCHANGED <<exc, mc, entities, context_ok>>
    /\ UNCHANGED <<tick_vars, disp_vars>>
    /\ UNCHANGED earlier

\* executor.spin() returns: the context has been shut down
SpinReturn ==
    /\ main_pc = "spin"
    /\ context_ok' = FALSE
    /\ main_pc' = "exit"
    /\ UNCHANGED <<exc, mc, entities, node_in_executor>>
    /\ UNCHANGED <<tick_vars, disp_vars>>
    /\ UNCHANGED earlier

\* __exit__: the body is a docstring; it returns None, so an exception that
\* is leaving the with block keeps propagating
Exit ==
    /\ main_pc = "exit"
    /\ main_pc' = "done"
    /\ UNCHANGED <<exc, mc, entities, node_in_executor, context_ok>>
    /\ UNCHANGED <<tick_vars, disp_vars>>
    /\ UNCHANGED earlier

\* the executor is spinning this node
Spinning == main_pc = "spin" /\ node_in_executor /\ context_ok

\* CanExecute for callbacks placed in a reentrant callback group
CanExecute_Reentrant == TRUE

\* the timer and the service are created without a callback_group argument,
\* so both belong to the node's default callback group, which is mutually
\* exclusive: the executor takes a callback of the group only while no
\* other callback of the group is running
CanExecute == tick_pc = "idle" /\ disp_pc = "idle"

\* an exception that left a callback: executor.spin() re-raises it in
\* main() (the executor checks its finished tasks), or the task keeps it and
\* nothing happens (executors that never ask the task for its result)
RaiseInSpin(propagate, error) ==
    IF propagate /\ main_pc = "spin"
    THEN /\ main_pc' = "exit"
         /\ exc' = error
         /\ UNCHANGED <<mc, entities, node_in_executor, context_ok>>
    ELSE UNCHANGED main_vars

\* ------------------------------------------------------------------------
\* joint_state_callback
\* ------------------------------------------------------------------------

\* [float(position) for position in angles]: a new list with one float per
\* element; float() keeps the numeric value of the angle
ToFloats(angles) == [k \in 1..Len(angles) |-> angles[k]]

GetAngles(id) == [fn |-> "get_angles", id |-> id, joint |-> 0]
GetAngle(id, joint) == [fn |-> "get_angle", id |-> id, joint |-> joint]

\* the timer fires: lines 59-72, up to the call self.mc.get_angles(1).
\* The model follows one run of the callback at a time.
TickBegin ==
    /\ Spinning
    /\ "timer_state" \in entities
    /\ tick_pc = "idle"
    /\ CanExecute
    /\ IF mc = "open"
       THEN /\ state_msg' = [EmptyAngles EXCEPT
                  !.left_arm.name = <<"LJ1", "LJ2", "LJ3", "LJ4", "LJ5", "LJ6">>]
            /\ reads' = <<GetAngles(1)>>
            /\ tick_pc' = "get_angles_1"
       ELSE /\ state_msg' = [EmptyAngles EXCEPT
                  !.left_arm.name = <<"LJ1", "LJ2", "LJ3", "LJ4", "LJ5", "LJ6">>]
            /\ reads' = <<>>
            /\ tick_pc' = "raised"
    /\ replies' = <<>>
    /\ pubs' = <<>>
    /\ UNCHANGED <<main_vars, disp_vars>>
    /\ UNCHANGED earlier

\* get_angles(1) returns: lines 72-87, up to the call self.mc.get_angles(2)
GetAngles1Return ==
    /\ tick_pc = "get_angles_1"
    /\ \E r \in ArmReplies :
         /\ replies' = Append(replies, r)
         /\ IF r.ok
            THEN /\ state_msg' = [state_msg EXCEPT
                       !.left_arm.position = ToFloats(r.val),
                       !.right_arm.name = <<"RJ1", "RJ2", "RJ3", "RJ4", "RJ5", "RJ6">>]
                 /\ reads' = Append(reads, GetAngles(2))
                 /\ tick_pc' = "get_angles_2"
            ELSE /\ tick_pc' = "raised"
                 /\ UNCHANGED <<state_msg, reads>>
    /\ UNCHANGED <<pubs, main_vars, disp_vars>>
    /\ UNCHANGED earlier

\* GetAngles2Return with line 88 converting the positions already stored
\* for the left arm instead of the reply of this read
GetAngles2Return_Stale ==
    /\ tick_pc = "get_angles_2"
    /\ \E r \in ArmReplies :
         /\ replies' = Append(replies, r)
         /\ IF r.ok
            THEN /\ state_msg' = [state_msg EXCEPT
                       !.right_arm.position = ToFloats(state_msg.left_arm.position),
                       !.waist.name = <<"W">>]
                 /\ reads' = Append(reads, GetAngle(3, 1))
                 /\ tick_pc' = "get_angle_3"
            ELSE /\ tick_pc' = "raised"
                 /\ UNCHANGED <<state_msg, reads>>
    /\ UNCHANGED <<pubs, main_vars, disp_vars>>
    /\ UNCHANGED earlier

\* get_angles(2) returns: lines 87-97, up to the call self.mc.get_angle(3, 1)
GetAngles2Return ==
    /\ tick_pc = "get_angles_2"
    /\ \E r \in ArmReplies :
         /\ replies' = Append(replies, r)
         /\ IF r.ok
            THEN /\ state_msg' = [state_msg EXCEPT
                       !.right_arm.position = ToFloats(r.val),
                       !.waist.name = <<"W">>]
                 /\ reads' = Append(reads, GetAngle(3, 1))
                 /\ tick_pc' = "get_angle_3"
            ELSE /\ tick_pc' = "raised"
                 /\ UNCHANGED <<state_msg, reads>>
    /\ UNCHANGED <<pubs, main_vars, disp_vars>>
    /\ UNCHANGED earlier

\* get_angle(3, 1) returns: lines 97-101, the message is published
GetAngle3Return ==
    /\ tick_pc = "get_angle_3"
    /\ \E r \in WaistReplies :
         /\ replies' = Append(replies, r)
         /\ IF r.ok
            THEN /\ state_msg' = [state_msg EXCEPT
                       !.waist.position = Append(state_msg.waist.position, r.val)]
                 /\ pubs' = Append(pubs, state_msg')
                 /\ tick_pc' = "published"
            ELSE /\ tick_pc' = "raised"
                 /\ UNCHANGED <<state_msg, pubs>>
    /\ UNCHANGED <<reads, main_vars, disp_vars>>
    /\ UNCHANGED earlier

\* joint_state_callback returns
TickEnd ==
    /\ tick_pc = "published"
    /\ tick_pc' = "idle"
    /\ state_msg' = EmptyAngles
    /\ reads' = <<>>
    /\ replies' = <<>>
    /\ pubs' = <<>>
    /\ UNCHANGED <<main_vars, disp_vars>>
    /\ earlier' = "tick"

\* joint_state_callback is left by an exception (TypeError from the
\* conversion of a reply that is not a list or not a number, or whatever
\* the Device Link call raised)
TickRaise ==
    /\ tick_pc = "raised"
    /\ tick_pc' = "idle"
    /\ state_msg' = EmptyAngles
    /\ reads' = <<>>
    /\ replies' = <<>>
    /\ pubs' = <<>>
    /\ \E propagate \in BOOLEAN : RaiseInSpin(propagate, "TypeError")
    /\ UNCHANGED disp_vars
    /\ UNCHANGED earlier

\* ------------------------------------------------------------------------
\* send_joint_angles_callback
\* ------------------------------------------------------------------------

\* PartId with the group id of the left arm copied into the branch of 'R'
PartId_CopiedBranch(code) ==
    IF code = "L" THEN 1
    ELSE IF code = "R" THEN 1
    ELSE IF code = "W" THEN 3
    ELSE 0

\* PartId with the last branch taken for every remaining code
PartId_NoElse(code) ==
    IF code = "L" THEN 1
    ELSE IF code = "R" THEN 2
    ELSE 3

\* lines 114-122: the group id of a part code, 0 for the else branch
PartId(code) ==
    IF code = "L" THEN 1
    ELSE IF code = "R" THEN 2
    ELSE IF code = "W" THEN 3
    ELSE 0

\* line 126: joint_number in [1, 2, 3, 4, 5, 6]
JointOk(j) == j \in {1, 2, 3, 4, 5, 6}

\* AngleOk with both bounds exclusive
AngleOk_Exclusive(a) == -175 < a /\ a < 175

\* AngleOk with the bounds of a half turn
AngleOk_HalfTurn(a) == -180 <= a /\ a <= 180

\* line 127: -175.0 <= request.angle[i] <= 175.0
AngleOk(a) == -175 <= a /\ a <= 175

\* SpeedOk without the upper bound
SpeedOk_NoUpper(s) == 1 <= s

\* line 128: 1 <= request.speed[i] <= 100
SpeedOk(s) == 1 <= s /\ s <= 100

\* the argument list of one self.mc.send_angle call
SendAngle(id, joint, angle, speed) ==
    [id |-> id, joint |-> joint, angle |-> angle, speed |-> speed]

NoCall == SendAngle(0, 0, 0, 0)

\* where the callback stops next
Returned(msg) == [pc |-> "returned", result |-> msg, call |-> NoCall]
Raised == [pc |-> "raised", result |-> "", call |-> NoCall]
Calling(c) == [pc |-> "send_angle", result |-> "", call |-> c]

\* Iteration with the angle check nested outside the joint check
Iteration_AngleFirst(req, p, k) ==
    LET joint_number == req.joint_number[k + 1] IN
    IF k >= Len(req.angle)
    THEN Raised
    ELSE IF AngleOk(req.angle[k + 1])
         THEN IF JointOk(joint_number)
              THEN IF k >= Len(req.speed)
                   THEN Raised
                   ELSE IF SpeedOk(req.speed[k + 1])
                        THEN Calling(SendAngle(p, joint_number,
                                               req.angle[k + 1], req.speed[k + 1]))
                        ELSE Returned(MsgSpeedRange)
              ELSE Returned(MsgWrongJoint)
         ELSE Returned(MsgAngleRange)

\* lines 126-139: one iteration of the loop, for the element of
\* request.joint_number the loop is at; k is the value of i (0-based).
\* request.angle[i] and request.speed[i] raise IndexError past the end of
\* their array, and only the branches that are reached evaluate them.
Iteration(req, p, k) ==
    LET joint_number == req.joint_number[k + 1] IN
    IF JointOk(joint_number)
    THEN IF k >= Len(req.angle)
         THEN Raised
         ELSE IF AngleOk(req.angle[k + 1])
              THEN IF k >= Len(req.speed)
                   THEN Raised
                   ELSE IF SpeedOk(req.speed[k + 1])
                        THEN Calling(SendAngle(p, joint_number,
                                               req.angle[k + 1], req.speed[k + 1]))
                        ELSE Returned(MsgSpeedRange)
              ELSE Returned(MsgAngleRange)
    ELSE Returned(MsgWrongJoint)

\* Continue with the whole rest of the batch validated before anything is
\* sent: the first element that would not be sent decides at once
Continue_ValidateFirst(req, p, k) ==
    LET rest == { m \in k..(Len(req.joint_number) - 1) :
                    Iteration(req, p, m).pc # "send_angle" }
    IN IF rest # {}
       THEN Iteration(req, p, CHOOSE m \in rest : \A n \in rest : m <= n)
       ELSE IF k < Len(req.joint_number)
            THEN Iteration(req, p, k)
            ELSE Returned(MsgSuccess)

\* lines 125-142: the loop continues with its next element, or is over.
\* i is incremented in every iteration that does not return, so the loop
\* is at element i of request.joint_number.
Continue(req, p, k) ==
    IF k < Len(req.joint_number)
    THEN Iteration(req, p, k)
    ELSE Returned(MsgSuccess)

\* self.mc.send_angle(...): the attribute mc exists only after the serial
\* port was opened; without it the call raises AttributeError
OnLink(next) ==
    IF next.pc = "send_angle" /\ mc # "open" THEN Raised ELSE next

\* SendJointAnglesCall for a callback that keeps an error flag between
\* calls: after a request that failed a check, the next request is answered
\* with a failure without being looked at
SendJointAnglesCall_Latched ==
    /\ Spinning
    /\ "srv_send_joint_angle" \in entities
    /\ disp_pc = "idle"
    /\ CanExecute
    /\ \E n \in 0..MaxLen : \E sh \in Shapes(n) :
       \E p \in PartCodes, js \in [1..n -> JointVals],
          an \in [1..sh[1] -> AngleVals], sp \in [1..sh[2] -> SpeedVals] :
         LET req == Request(p, js, an, sp) IN
         /\ request' = req
         /\ part_id' = PartId(req.part_id)
         /\ i' = 0
         /\ LET next == IF PartId(req.part_id) = 0
                        THEN Returned(MsgWrongId)
                        ELSE IF earlier = "failure"
                             THEN Returned(MsgWrongJoint)
                             ELSE OnLink(Continue(req, PartId(req.part_id), 0))
            IN /\ disp_pc' = next.pc
               /\ response' = next.result
               /\ sent' = IF next.pc = "send_angle" THEN <<next.call>> ELSE <<>>
    /\ UNCHANGED <<main_vars, tick_vars>>
    /\ UNCHANGED earlier

\* send_joint_angles_callback(request, response): lines 113-124, then the
\* loop up to its first send_angle call or its return
Serve(req) ==
    /\ request' = req
    /\ part_id' = PartId(req.part_id)
    /\ i' = 0
    /\ LET next == IF PartId(req.part_id) = 0
                   THEN Returned(MsgWrongId)
                   ELSE OnLink(Continue(req, PartId(req.part_id), 0))
       IN /\ disp_pc' = next.pc
          /\ response' = next.result
          /\ sent' = IF next.pc = "send_angle" THEN <<next.call>> ELSE <<>>
    /\ UNCHANGED <<main_vars, tick_vars>>
    /\ UNCHANGED earlier

\* a service request arrives and the executor takes the callback.  The
\* model follows one request at a time.
SendJointAnglesCall ==
    /\ Spinning
    /\ "srv_send_joint_angle" \in entities
    /\ disp_pc = "idle"
    /\ CanExecute
    /\ \E n \in 0..MaxLen : \E sh \in Shapes(n) :
       \E p \in PartCodes, js \in [1..n -> JointVals],
          an \in [1..sh[1] -> AngleVals], sp \in [1..sh[2] -> SpeedVals] :
         Serve(Request(p, js, an, sp))

\* requests of one entry whose angle and speed lie on and next to the
\* bounds of the checks, for every joint of an arm
BoundaryAngles == {-176, -175, 175, 176}
BoundarySpeeds == {0, 1, 100, 101}
BoundaryJoints == {1, 2, 3, 4, 5, 6}

\* a service request of one such entry arrives and the executor takes the
\* callback
SendBoundaryRequest ==
    /\ Spinning
    /\ "srv_send_joint_angle" \in entities
    /\ disp_pc = "idle"
    /\ CanExecute
    /\ \E p \in PartCodes, j \in BoundaryJoints,
          a \in BoundaryAngles, sp \in BoundarySpeeds :
         Serve(Request(p, <<j>>, <<a>>, <<sp>>))

\* SendAngleReturn for a callback that reads the joint back with get_angle
\* after every send_angle
SendAngleReturn_ReadBack ==
    /\ disp_pc = "send_angle"
    /\ i' = i + 1
    /\ LET next == OnLink(Continue(request, part_id, i + 1))
       IN /\ disp_pc' = next.pc
          /\ response' = next.result
          /\ sent' = IF next.pc = "send_angle" THEN Append(sent, next.call) ELSE sent
    /\ reads' = Append(reads, GetAngle(part_id, request.joint_number[i + 1]))
    /\ UNCHANGED <<request, part_id, main_vars, tick_pc, state_msg, replies, pubs>>
    /\ UNCHANGED earlier

\* send_angle returns: i += 1, then the loop up to its next send_angle call
\* or its return
SendAngleReturn ==
    /\ disp_pc = "send_angle"
    /\ i' = i + 1
    /\ LET next == OnLink(Continue(request, part_id, i + 1))
       IN /\ disp_pc' = next.pc
          /\ response' = next.result
          /\ sent' = IF next.pc = "send_angle" THEN Append(sent, next.call) ELSE sent
    /\ UNCHANGED <<request, part_id, main_vars, tick_vars>>
    /\ UNCHANGED earlier

\* DispatchReturn for a callback that reports a failed check by raising
\* instead of returning the response
DispatchReturn_FailureRaises ==
    /\ disp_pc = "returned"
    /\ disp_pc' = "idle"
    /\ request' = NoRequest
    /\ part_id' = 0
    /\ i' = 0
    /\ response' = ""
    /\ sent' = <<>>
    /\ IF response # MsgSuccess
       THEN /\ RaiseInSpin(TRUE, "ValueError")
            /\ UNCHANGED earlier
       ELSE /\ UNCHANGED main_vars
            /\ earlier' = "success"
    /\ UNCHANGED tick_vars

\* send_joint_angles_callback returns response; the service sends it
DispatchReturn ==
    /\ disp_pc = "returned"
    /\ disp_pc' = "idle"
    /\ request' = NoRequest
    /\ part_id' = 0
    /\ i' = 0
    /\ response' = ""
    /\ sent' = <<>>
    /\ UNCHANGED <<main_vars, tick_vars>>
    /\ earlier' = IF response = MsgSuccess THEN "success" ELSE "failure"

\* send_joint_angles_callback is left by an exception (IndexError from
\* request.angle[i] or request.speed[i]); no response is sent
DispatchRaise ==
    /\ disp_pc = "raised"
    /\ disp_pc' = "idle"
    /\ request' = NoRequest
    /\ part_id' = 0
    /\ i' = 0
    /\ response' = ""
    /\ sent' = <<>>
    /\ \E propagate \in BOOLEAN : RaiseInSpin(propagate, "IndexError")
    /\ UNCHANGED tick_vars
    /\ UNCHANGED earlier

\* ------------------------------------------------------------------------
\* Specification
\* ------------------------------------------------------------------------

Next ==
    \/ Construct
    \/ Enter
    \/ AddNode
    \/ KeyboardInterrupt
    \/ SpinReturn
    \/ Exit
    \/ TickBegin
    \/ GetAngles1Return
    \/ GetAngles2Return
    \/ GetAngle3Return
    \/ TickEnd
    \/ TickRaise
    \/ SendJointAnglesCall
    \/ SendAngleReturn
    \/ DispatchReturn
    \/ DispatchRaise

Spec == Init /\ [][Next]_vars

\* the service alone, fed with the one-entry requests on the bounds
NextBounds ==
    \/ Construct
    \/ Enter
    \/ AddNode
    \/ SendBoundaryRequest
    \/ SendAngleReturn
    \/ DispatchReturn

SpecBounds == Init /\ [][NextBounds]_vars

\* ------------------------------------------------------------------------
\* Properties of send_joint_angles_callback
\* ------------------------------------------------------------------------

\* the part codes the service accepts
ValidParts == {"L", "R", "W"}

\* the group id the interface documents for a part code
GroupOf(code) == CASE code = "L" -> 1 [] code = "R" -> 2 [] code = "W" -> 3

\* entry k (counted from 1) of a request is complete and passes the joint,
\* angle and speed checks
ValidEntry(req, k) ==
    /\ k <= Len(req.joint_number) /\ k <= Len(req.angle) /\ k <= Len(req.speed)
    /\ req.joint_number[k] \in 1..6
    /\ req.angle[k] >= -175 /\ req.angle[k] <= 175
    /\ req.speed[k] >= 1 /\ req.speed[k] <= 100

\* the position (counted from 1) of the first entry at or after k that is
\* not valid; one past the end when there is none
RECURSIVE FirstInvalidFrom(_, _)
FirstInvalidFrom(req, k) ==
    IF k > Len(req.joint_number) \/ ~ValidEntry(req, k)
    THEN k
    ELSE FirstInvalidFrom(req, k + 1)

\* the position (counted from 1) of the first entry that is not valid;
\* one past the end when every entry is valid
FirstInvalid(req) == FirstInvalidFrom(req, 1)

\* the send_angle calls of the first n entries of a request, in request order
ExpectedCalls(req, n) ==
    [k \in 1..n |-> [id |-> GroupOf(req.part_id), joint |-> req.joint_number[k],
                     angle |-> req.angle[k], speed |-> req.speed[k]]]

\* the messages of the checks that entry k of a request fails
FailedChecks(req, k) ==
    (IF req.joint_number[k] \notin 1..6 THEN {MsgWrongJoint} ELSE {})
    \cup (IF k <= Len(req.angle) /\ (req.angle[k] < -175 \/ req.angle[k] > 175)
          THEN {MsgAngleRange} ELSE {})
    \cup (IF k <= Len(req.speed) /\ (req.speed[k] < 1 \/ req.speed[k] > 100)
          THEN {MsgSpeedRange} ELSE {})

\* s is an initial part of t
IsPrefix(s, t) == Len(s) <= Len(t) /\ \A k \in 1..Len(s) : s[k] = t[k]

\* C1: when a request with a valid part code is answered with a failure
\* message and its first invalid entry is at 0-based position k, exactly the
\* calls of entries 0..k-1 have been issued, in request order; and while
\* the callback runs, the calls it has issued are only ever added to.
C1_PrefixApplied ==
    /\ [](disp_pc = "returned" /\ request.part_id \in ValidParts /\ response # MsgSuccess
            => LET k == FirstInvalid(request)
               IN /\ k <= Len(request.joint_number)
                  /\ sent = ExpectedCalls(request, k - 1))
    /\ [][disp_pc # "idle" /\ disp_pc' # "idle" => IsPrefix(sent, sent')]_vars

\* the batch [valid, valid, invalid] has been answered after two calls
C1_Witness ==
    /\ disp_pc = "returned"
    /\ request.part_id \in ValidParts
    /\ response # MsgSuccess
    /\ FirstInvalid(request) = 3
    /\ Len(sent) = 2

\* every entry of the request is valid
AllValid(req) == FirstInvalid(req) = Len(req.joint_number) + 1

\* C2: a request with part code L, R or W whose N entries are all valid is
\* never left by an exception, issues only calls of its entries in request
\* order with the group id of its part code, and when it is answered
\* exactly its N calls have been issued and the result is the success message.
C2_FullBatch ==
    disp_pc # "idle" /\ request.part_id \in ValidParts /\ AllValid(request)
        => /\ disp_pc # "raised"
           /\ IsPrefix(sent, ExpectedCalls(request, Len(request.joint_number)))
           /\ disp_pc = "returned"
                => /\ sent = ExpectedCalls(request, Len(request.joint_number))
                   /\ response = MsgSuccess

\* a valid batch of three entries for the right arm has been answered
C2_Witness ==
    /\ disp_pc = "returned"
    /\ request.part_id = "R"
    /\ AllValid(request)
    /\ Len(request.joint_number) = 3
    /\ Len(sent) = 3
    /\ response = MsgSuccess

\* C3: a request with a valid part code that has an invalid entry is
\* answered with the message of a check its first invalid entry fails, and
\* no call is ever issued for that entry or a later one: the callback has
\* issued fewer calls than the position of that entry.
C3_FirstInvalidStops ==
    disp_pc # "idle" /\ request.part_id \in ValidParts
        => LET k == FirstInvalid(request)
           IN k <= Len(request.joint_number)
                => /\ Len(sent) < k
                   /\ disp_pc = "returned" => response \in FailedChecks(request, k)

\* a request is answered with the angle-range message although a valid
\* entry follows the failing one
C3_Witness ==
    /\ disp_pc = "returned"
    /\ request.part_id \in ValidParts
    /\ response = MsgAngleRange
    /\ FirstInvalid(request) < Len(request.joint_number)
    /\ ValidEntry(request, FirstInvalid(request) + 1)

\* C4: a request whose part code is not L, R or W is answered with the
\* wrong-ID message at once and issues no Device Link call, whatever its
\* entries are.
C4_WrongPart ==
    disp_pc # "idle" /\ request.part_id \notin ValidParts
        => /\ disp_pc = "returned"
           /\ response = MsgWrongId
           /\ sent = <<>>

\* a request with an unknown part code and a valid first entry is answered
C4_Witness ==
    /\ disp_pc = "returned"
    /\ request.part_id \notin ValidParts
    /\ Len(request.joint_number) > 0
    /\ ValidEntry(request, 1)
    /\ response = MsgWrongId

\* ------------------------------------------------------------------------
\* Properties of the node: concurrency, start-up, telemetry, shutdown
\* ------------------------------------------------------------------------

\* the Device Link calls that are in progress
CallsInProgress ==
    (IF tick_pc \in {"get_angles_1", "get_angles_2", "get_angle_3"} THEN {"tick"} ELSE {})
    \cup (IF disp_pc = "send_angle" THEN {"dispatch"} ELSE {})

\* C5: at most one Device Link call (get_angles, get_angle or send_angle)
\* is in progress at any time, whatever the order in which the executor
\* runs the timer callback and the service callback.
C5_OneCallAtATime == Cardinality(CallsInProgress) <= 1

\* a send_angle call is in progress while the executor is spinning the node
\* with its timer registered, and the timer callback is not running
C5_Witness ==
    /\ disp_pc = "send_angle"
    /\ Spinning
    /\ "timer_state" \in entities
    /\ tick_pc = "idle"

\* C6: a service callback that has ended holds a result message that is one
\* of the five fixed strings, also when the angle or speed array of its
\* request is shorter than the joint_number array.
C6_OneResultMessage ==
    disp_pc \in {"returned", "raised"}
        => response \in {MsgWrongId, MsgWrongJoint, MsgAngleRange, MsgSpeedRange, MsgSuccess}

\* C7: once the constructor has failed to open the Device Link, nothing is
\* registered on the node, the node is in no executor, no callback runs,
\* main() is over, and the Device Link is never opened afterwards.
C7_FailFastStartup ==
    /\ [](main_pc # "construct" /\ mc # "open"
            => /\ entities = {}
               /\ ~node_in_executor
               /\ tick_pc = "idle"
               /\ disp_pc = "idle"
               /\ main_pc = "done")
    /\ [][main_pc # "construct" /\ mc # "open" => mc' # "open"]_vars

\* the constructor has failed to open the serial port
C7_Witness ==
    /\ main_pc = "done"
    /\ mc = "unset"
    /\ exc = "AttributeError"
    /\ entities = {}

\* a reply of get_angles with six values
ArmReplyOk(r) == r.ok /\ Len(r.val) = 6

\* every read of the running tick so far returned what the Device Link
\* promises: six values for an arm, one value for the waist
RepliesWellFormed ==
    \A k \in 1..Len(replies) :
        IF k <= 2 THEN ArmReplyOk(replies[k]) ELSE replies[k].ok

\* C8: a tick in which a read failed or returned a list of the wrong length
\* publishes no message, and such a tick does not end the process.
C8_BadReadSuppressed ==
    /\ tick_pc = "published" => RepliesWellFormed
    /\ exc # "TypeError"

\* the reads of one tick, in the order of the callback
TickReads ==
    << [fn |-> "get_angles", id |-> 1, joint |-> 0],
       [fn |-> "get_angles", id |-> 2, joint |-> 0],
       [fn |-> "get_angle",  id |-> 3, joint |-> 1] >>

C10_ShutdownReleases ==
    main_pc = "done" /\ exc # "AttributeError"
        => /\ mc # "open"
           /\ entities = {}
           /\ CallsInProgress = {}

\* ------------------------------------------------------------------------
\* Properties of the service across requests
\* ------------------------------------------------------------------------

\* the four messages of a failed check
FailureMessages == {MsgWrongId, MsgWrongJoint, MsgAngleRange, MsgSpeedRange}

\* C11: the step in which a callback returns a failure message changes
\* nothing of the node or of main(): no exception, the link stays open, the
\* timer and the service stay registered, the executor keeps the node; and
\* whenever the executor is spinning with no callback running after such a
\* return, the timer callback and the service callback can both be taken.
C11_FailureKeepsService ==
    /\ [][disp_pc = "returned" /\ response \in FailureMessages /\ disp_pc' = "idle"
            => /\ main_vars' = main_vars
               /\ earlier' = "failure"]_vars
    /\ [](earlier = "failure" /\ Spinning /\ tick_pc = "idle" /\ disp_pc = "idle"
            => /\ ENABLED TickBegin
               /\ ENABLED SendJointAnglesCall
               /\ mc = "open"
               /\ exc = "none")

\* after a request was answered with a failure message, a tick has
\* published a message
C11_Witness ==
    /\ earlier = "failure"
    /\ Spinning
    /\ tick_pc = "published"
    /\ Len(pubs) = 1

\* the message of the first check, in the order joint, angle, speed, that
\* entry k of a request fails; "" when the entry ends before a check that
\* would be reached fails (its angle or speed is missing)
FirstFailedCheck(req, k) ==
    IF req.joint_number[k] \notin 1..6 THEN MsgWrongJoint
    ELSE IF k > Len(req.angle) THEN ""
    ELSE IF req.angle[k] < -175 \/ req.angle[k] > 175 THEN MsgAngleRange
    ELSE IF k > Len(req.speed) THEN ""
    ELSE IF req.speed[k] < 1 \/ req.speed[k] > 100 THEN MsgSpeedRange
    ELSE ""

\* the result message a request calls for, from the request alone; "" when
\* the request has an entry without angle or speed where one is needed
ResultOf(req) ==
    IF req.part_id \notin ValidParts THEN MsgWrongId
    ELSE LET k == FirstInvalid(req)
         IN IF k > Len(req.joint_number) THEN MsgSuccess
            ELSE FirstFailedCheck(req, k)

\* the send_angle calls a request calls for, from the request alone
CallsOf(req) ==
    IF req.part_id \notin ValidParts THEN <<>>
    ELSE ExpectedCalls(req, FirstInvalid(req) - 1)

\* C12: the result message and the sequence of send_angle calls of a
\* callback that has ended are those its request alone calls for, whatever
\* ran before it: nothing, a tick, a successful request or a failed one.
C12_RequestAlone ==
    disp_pc \in {"returned", "raised"}
        => /\ response = ResultOf(request)
           /\ sent = CallsOf(request)
           /\ (disp_pc = "raised") = (ResultOf(request) = "")

\* a request is answered with success after two calls although the request
\* before it was answered with a failure
C12_Witness ==
    /\ earlier = "failure"
    /\ disp_pc = "returned"
    /\ response = MsgSuccess
    /\ Len(sent) >= 2

\* ------------------------------------------------------------------------
\* Properties of the calls that reach the Device Link
\* ------------------------------------------------------------------------

\* C13: every send_angle call issued to the Device Link has a group id in
\* {1,2,3}, a joint number in 1..6, an angle in [-175,175] and a speed in
\* [1,100].
C13_OnlyCheckedValuesSent ==
    \A k \in 1..Len(sent) :
        /\ sent[k].id \in {1, 2, 3}
        /\ sent[k].joint \in 1..6
        /\ sent[k].angle >= -175 /\ sent[k].angle <= 175
        /\ sent[k].speed >= 1 /\ sent[k].speed <= 100

\* a call has been issued by a request that also holds a value that fails
\* a check, after an earlier request was served
C13_Witness ==
    /\ Len(sent) >= 1
    /\ earlier \in {"success", "failure"}
    /\ ~AllValid(request)

\* the joints a group has: six for each arm, one for the waist
JointsOf(id) == IF id = 3 THEN {1} ELSE 1..6

\* C14: every send_angle call addresses a joint that its group has: joint
\* 1..6 for the arms (groups 1 and 2), joint 1 only for the waist (group 3).
C14_JointExistsInGroup ==
    \A k \in 1..Len(sent) : sent[k].joint \in JointsOf(sent[k].id)

\* ------------------------------------------------------------------------
\* Properties of the checks
\* ------------------------------------------------------------------------

\* the checks that entry k of a request fails, by name
BadJoint(req, k) == req.joint_number[k] \notin 1..6
BadAngle(req, k) == k <= Len(req.angle) /\ (req.angle[k] < -175 \/ req.angle[k] > 175)
BadSpeed(req, k) == k <= Len(req.speed) /\ (req.speed[k] < 1 \/ req.speed[k] > 100)

\* C15: a request with an invalid part code is answered with the wrong-ID
\* message whatever its entries fail; otherwise the answer to a request
\* with an invalid entry is decided by the first invalid entry in the order
\* joint, angle, speed: wrong-joint if its joint number is bad, whatever
\* else is bad; angle-range only if its joint number is good; speed-range
\* only if its joint number and angle are good.
C15_CheckOrder ==
    disp_pc = "returned"
        => IF request.part_id \notin ValidParts
           THEN response = MsgWrongId
           ELSE ~AllValid(request) =>
                LET k == FirstInvalid(request) IN
                /\ BadJoint(request, k) => response = MsgWrongJoint
                /\ ~BadJoint(request, k) /\ BadAngle(request, k) => response = MsgAngleRange
                /\ response = MsgAngleRange => ~BadJoint(request, k)
                /\ response = MsgSpeedRange
                     => ~BadJoint(request, k) /\ ~BadAngle(request, k) /\ BadSpeed(request, k)

\* a request whose first invalid entry fails all three checks has been
\* answered with the wrong-joint message
C15_Witness ==
    /\ disp_pc = "returned"
    /\ request.part_id \in ValidParts
    /\ ~AllValid(request)
    /\ BadJoint(request, FirstInvalid(request))
    /\ BadAngle(request, FirstInvalid(request))
    /\ BadSpeed(request, FirstInvalid(request))
    /\ response = MsgWrongJoint

C17_DispatchEndsWithResponse ==
    disp_pc \notin {"idle", "send_angle"}
        => /\ disp_pc = "returned"
           /\ response # ""
           /\ Len(sent) <= Len(request.joint_number)

\* C18: a step of the timer callback issues no send_angle call, and a step
\* of the service callback issues no read and publishes no message.
C18_DisjointEffects ==
    [][ /\ tick_pc' # tick_pc => sent' = sent
        /\ (disp_pc' # disp_pc \/ i' # i \/ sent' # sent)
              => reads' = reads /\ pubs' = pubs ]_vars

\* a service callback is in its second send_angle call after a tick has
\* run, with no read issued and nothing published
C18_Witness ==
    /\ earlier = "tick"
    /\ disp_pc = "send_angle"
    /\ Len(sent) = 2
    /\ reads = <<>>
    /\ pubs = <<>>

====
